---- MODULE Spec2Model ----
(***************************************************************************)
(* A model of the football environment's game engine (src/game/engine.py)  *)
(* and physics (src/game/physics.py).                                      *)
(*                                                                         *)
(* Numbers.  The program computes in floating point.  Here every length    *)
(* and velocity is a fixed-point integer counted in hundredths of a unit   *)
(* (One == 100 stands for 1.0).  Comparisons of distances are made on the  *)
(* squares, so they are exact.  Where the code divides by a square root    *)
(* the quotient is rounded in the direction that keeps what exact real     *)
(* arithmetic guarantees: a clamped or normalised vector is never longer   *)
(* than its bound (SqrtUp, DivT), a separation never falls short of the    *)
(* overlap it resolves (SqrtDown, DivAway).  Restitutions and the friction *)
(* coefficient are rationals (tenths, hundredths).                         *)
(***************************************************************************)
EXTENDS Integers, Sequences, FiniteSets, TLC

VARIABLES
    players,                     \* Game.players: sequence of Player records
    ball,                        \* Game.ball
    score,                       \* Game.score, indexed by team id 0, 1
    tick,                        \* Game.tick
    status,                      \* Game.status
    goal_celebration_remaining,  \* Game.goal_celebration_remaining
    pending_goal_scorer,         \* Game.pending_goal_scorer (None or a team)
    ret,                         \* what the last call of Game.step returned
    asked,                       \* agents whose get_action the last step called
    actions,                     \* the dict _get_agent_actions returned last
    kick_impulse,                \* per player: impulse its kick gave the ball
    log,                         \* ticks of the snapshots passed to the logger
    detected_at,                 \* tick count when the pending goal was detected
    snapshot,                    \* the GameState the last executed step took
    seen,                        \* per agent: the GameState its get_action got
    resets,                      \* per agent: the calls of its reset()
    states,                      \* GameLogger.states: ticks of the snapshots kept
    finalized,                   \* GameLogger.finalized
    returned,                    \* per team: the calls of step that returned it
    probe,                       \* argument of the pure function under test
    result,                      \* its result
    gpc,                         \* _get_agent_actions: position of the engine thread
    fut,                         \* state of each submitted future
    deadline_passed,             \* the shared as_completed timeout has elapsed
    gactions,                    \* the actions dict being filled
    gcall                        \* calls of _get_agent_actions issued so far

vars == <<players, ball, score, tick, status, goal_celebration_remaining,
          pending_goal_scorer, ret, asked, actions, kick_impulse, log,
          detected_at, snapshot, seen, resets, states, finalized, returned, probe,
          result, gpc, fut, deadline_passed, gactions,
          gcall>>

gameVars == <<players, ball, score, tick, status, goal_celebration_remaining,
              pending_goal_scorer, ret, asked, actions, kick_impulse, log,
              detected_at, snapshot, seen, resets, states, finalized,
              returned>>

probeVars == <<probe, result>>

gatherVars == <<gpc, fut, deadline_passed, gactions, gcall>>

----------------------------------------------------------------------------
(* Fixed-point arithmetic *)

One == 100

None == -1

RUNNING == "running"

ENDED == "ended"

Abs(a) == IF a < 0 THEN -a ELSE a

\* Quotient rounded toward zero (b > 0).
DivT(a, b) == IF a >= 0 THEN a \div b ELSE -((-a) \div b)

\* Quotient rounded away from zero (b > 0).
DivAway(a, b) == IF a >= 0 THEN (a + b - 1) \div b ELSE -((-a + b - 1) \div b)

RECURSIVE SqrtSearch(_, _, _)
SqrtSearch(n, lo, hi) ==
    IF lo >= hi THEN lo
    ELSE LET mid == (lo + hi + 1) \div 2
         IN  IF mid * mid <= n THEN SqrtSearch(n, mid, hi)
             ELSE SqrtSearch(n, lo, mid - 1)

\* math.sqrt, rounded down / up to the fixed-point grid.
SqrtDown(n) == SqrtSearch(n, 0, 46340)

SqrtUp(n) == LET s == SqrtDown(n) IN IF s * s = n THEN s ELSE s + 1

----------------------------------------------------------------------------
(* GameConfig: the configuration the engine is parameterised by.  Lengths  *)
(* and speeds in hundredths of a unit, masses in half units, restitution   *)
(* in tenths, friction in hundredths.                                      *)

field_width == 8000

field_height == 4000

corner_radius == 600

goal_width == 1000

goal_height == 2000

player_radius == 300

ball_radius == 200

player_mass == 2

ball_mass == 1

player_max_speed == 500

player_max_acceleration == 250

ball_max_speed == 2000

ball_friction == 98

kick_range == 1000

kick_power == 4500

kick_cooldown_ticks == 2

players_per_team == 1

win_score == 2

max_ticks == 7

goal_celebration_ticks == 2

\* GameConfig.get_initial_ball_position(): the kickoff point.
get_initial_ball_position == <<field_width \div 2, field_height \div 2>>

\* GameConfig.get_initial_player_positions(team): the formation slots of a
\* team, a function of team and player index.
get_initial_player_positions(team) ==
    [i \in 1..players_per_team |->
        IF team = 0
        THEN <<field_width \div 2 - 600 - 1000 * (i - 1), field_height \div 2>>
        ELSE <<field_width \div 2 + 600 + 1000 * (i - 1), field_height \div 2>>]

----------------------------------------------------------------------------
(* Inputs: the values the random draws and the decision sources range over *)

\* random.uniform(0, 2*pi) and random.uniform(2.0, 5.0): the kickoff
\* velocity (cos(angle) * speed, sin(angle) * speed) of the ball.
KickoffVelocities == {<<-200, 0>>, <<300, -400>>}

\* random.uniform(-jitter, jitter) with jitter = 20.0, per player (x, y).
JitterChoices == {<<0, 0>>, <<600, 0>>, <<-600, 0>>}

\* agents.base.Action(ax, ay, kick=False)
Action(ax, ay, kick) == [ax |-> ax, ay |-> ay, kick |-> kick]

\* The actions a decision source of each team returns.
AgentActions(team) ==
    IF team = 0
    THEN {Action(0, 0, TRUE), Action(300, -400, FALSE)}
    ELSE {Action(0, 0, FALSE), Action(-1000, 0, TRUE)}

NumPlayers == 2 * players_per_team

Agents == 1..NumPlayers

\* all_agents = team0_agents + team1_agents: the team and player id of the
\* i-th agent (and of the i-th player, which _setup_players builds in the
\* same order).
TeamOf(i) == IF i <= players_per_team THEN 0 ELSE 1

PlayerIdOf(i) == IF i <= players_per_team THEN i - 1 ELSE i - players_per_team - 1

----------------------------------------------------------------------------
(* Physics (src/game/physics.py) *)

SpeedSq(e) == e.vx * e.vx + e.vy * e.vy

\* Physics._clamp_velocity
_clamp_velocity(e, max_speed) ==
    IF SpeedSq(e) > max_speed * max_speed
    THEN LET speed == SqrtUp(SpeedSq(e))
         IN  [e EXCEPT !.vx = DivT(e.vx * max_speed, speed),
                       !.vy = DivT(e.vy * max_speed, speed)]
    ELSE e

\* Physics.apply_acceleration
apply_acceleration(player, ax, ay) ==
    LET max_acc == player_max_acceleration
        magSq   == ax * ax + ay * ay
        over    == magSq > max_acc * max_acc
        acc_mag == SqrtUp(magSq)
        cax     == IF over THEN DivT(ax * max_acc, acc_mag) ELSE ax
        cay     == IF over THEN DivT(ay * max_acc, acc_mag) ELSE ay
    IN  _clamp_velocity([player EXCEPT !.vx = player.vx + cax,
                                       !.vy = player.vy + cay],
                        player_max_speed)

\* Physics.update_positions: a world is [players |-> ..., ball |-> ...].
update_positions(w) ==
    LET moved == [i \in DOMAIN w.players |->
                    [w.players[i] EXCEPT !.x = w.players[i].x + w.players[i].vx,
                                         !.y = w.players[i].y + w.players[i].vy]]
        b1 == [w.ball EXCEPT !.x = w.ball.x + w.ball.vx,
                             !.y = w.ball.y + w.ball.vy]
        b2 == [b1 EXCEPT !.vx = DivT(b1.vx * ball_friction, 100),
                         !.vy = DivT(b1.vy * ball_friction, 100)]
    IN  [players |-> moved, ball |-> _clamp_velocity(b2, ball_max_speed)]

NoCorner == <<>>

\* Physics._is_in_corner_region
_is_in_corner_region(x, y) ==
    LET corner_r == corner_radius
    IN  IF x < corner_r /\ y < corner_r
            THEN <<corner_r, corner_r>>
        ELSE IF x > field_width - corner_r /\ y < corner_r
            THEN <<field_width - corner_r, corner_r>>
        ELSE IF x < corner_r /\ y > field_height - corner_r
            THEN <<corner_r, field_height - corner_r>>
        ELSE IF x > field_width - corner_r /\ y > field_height - corner_r
            THEN <<field_width - corner_r, field_height - corner_r>>
        ELSE NoCorner

\* EnforceCorner without the push of lines 98-104: the corner is not enforced.
CornerLeftAlone(e, radius, restitution, corner) == e

\* Physics._enforce_boundary, the corner branch (lines 87-114).
EnforceCorner(e, radius, restitution, corner) ==
    LET cx == corner[1]
        cy == corner[2]
        dx == e.x - cx
        dy == e.y - cy
        distSq == dx * dx + dy * dy
        max_dist == corner_radius - radius
        dist == SqrtUp(distSq)
        dotNum == e.vx * dx + e.vy * dy
        dot == DivT(dotNum, dist)
        pushed == [e EXCEPT !.x = cx + DivT(dx * max_dist, dist),
                            !.y = cy + DivT(dy * max_dist, dist)]
    IN  IF (max_dist < 0 \/ distSq > max_dist * max_dist) /\ distSq > 0
        THEN IF dotNum > 0
             THEN [pushed EXCEPT
                     !.vx = e.vx - DivT(2 * dot * dx * restitution, dist * 10),
                     !.vy = e.vy - DivT(2 * dot * dy * restitution, dist * 10)]
             ELSE pushed
        ELSE e

\* Physics._enforce_boundary, the straight walls (lines 116-141).
EnforceWalls(e, radius, is_ball, restitution) ==
    LET goal_top == field_height \div 2 - goal_height \div 2
        goal_bottom == field_height \div 2 + goal_height \div 2
        bounce(v) == DivT(-v * restitution, 10)
        e1 == IF e.x - radius < 0
                 /\ (~is_ball \/ ~(goal_top <= e.y /\ e.y <= goal_bottom))
              THEN [e EXCEPT !.x = radius,
                             !.vx = IF e.vx < 0 THEN bounce(e.vx) ELSE e.vx]
              ELSE e
        e2 == IF e1.x + radius > field_width
                 /\ (~is_ball \/ ~(goal_top <= e1.y /\ e1.y <= goal_bottom))
              THEN [e1 EXCEPT !.x = field_width - radius,
                              !.vx = IF e1.vx > 0 THEN bounce(e1.vx) ELSE e1.vx]
              ELSE e1
        e3 == IF e2.y - radius < 0
              THEN [e2 EXCEPT !.y = radius,
                              !.vy = IF e2.vy < 0 THEN bounce(e2.vy) ELSE e2.vy]
              ELSE e2
        e4 == IF e3.y + radius > field_height
              THEN [e3 EXCEPT !.y = field_height - radius,
                              !.vy = IF e3.vy > 0 THEN bounce(e3.vy) ELSE e3.vy]
              ELSE e3
    IN  e4

\* _enforce_boundary with the walls closed to the ball as they are to a
\* player: no goal opening.
BoundaryWithoutMouth(e, radius, is_ball) ==
    LET restitution == IF is_ball THEN 8 ELSE 5
        corner == _is_in_corner_region(e.x, e.y)
    IN  IF corner # NoCorner
        THEN EnforceCorner(e, radius, restitution, corner)
        ELSE EnforceWalls(e, radius, FALSE, restitution)

\* Physics._enforce_boundary
_enforce_boundary(e, radius, is_ball) ==
    LET restitution == IF is_ball THEN 8 ELSE 5
        corner == _is_in_corner_region(e.x, e.y)
    IN  IF corner # NoCorner
        THEN EnforceCorner(e, radius, restitution, corner)
        ELSE EnforceWalls(e, radius, is_ball, restitution)

\* _resolve_circle_collision with the masses of lines 183-186 exchanged: each
\* entity's velocity changes by the impulse over the other's mass.
ResolveSwappedImpulse(e1, r1, e2, r2, m1, m2, restitution) ==
    LET dx0 == e2.x - e1.x
        dy0 == e2.y - e1.y
        distSq == dx0 * dx0 + dy0 * dy0
        min_dist == r1 + r2
        \* dist < 0.001: overlapping centers, dx, dy, dist = 1.0, 0.0, 1.0
        centered == distSq = 0
        dx == IF centered THEN One ELSE dx0
        dy == IF centered THEN 0 ELSE dy0
        dist == IF centered THEN One ELSE SqrtDown(distSq)
        overlap == min_dist - dist
        total_mass == m1 + m2
        s1 == [e1 EXCEPT !.x = e1.x - DivAway(dx * overlap * m2, dist * total_mass),
                         !.y = e1.y - DivAway(dy * overlap * m2, dist * total_mass)]
        s2 == [e2 EXCEPT !.x = e2.x + DivAway(dx * overlap * m1, dist * total_mass),
                         !.y = e2.y + DivAway(dy * overlap * m1, dist * total_mass)]
        dvx == e2.vx - e1.vx
        dvy == e2.vy - e1.vy
        dvnNum == dvx * dx + dvy * dy
        dvn == DivT(dvnNum, dist)
        \* j / (m1 * m2) times the normal: j = -(1 + restitution) * dvn / (1/m1 + 1/m2)
        jx == DivT(-(10 + restitution) * dvn * dx, 10 * total_mass * dist)
        jy == DivT(-(10 + restitution) * dvn * dy, 10 * total_mass * dist)
    IN  IF distSq >= min_dist * min_dist
        THEN [e1 |-> e1, e2 |-> e2, hit |-> FALSE]
        ELSE IF dvnNum < 0
        THEN [e1 |-> [s1 EXCEPT !.vx = e1.vx - jx * m1, !.vy = e1.vy - jy * m1],
              e2 |-> [s2 EXCEPT !.vx = e2.vx + jx * m2, !.vy = e2.vy + jy * m2],
              hit |-> TRUE]
        ELSE [e1 |-> s1, e2 |-> s2, hit |-> TRUE]

\* Physics._resolve_circle_collision.  restitution in tenths.  Returns the
\* two entities and whether a collision was resolved.
_resolve_circle_collision(e1, r1, e2, r2, m1, m2, restitution) ==
    LET dx0 == e2.x - e1.x
        dy0 == e2.y - e1.y
        distSq == dx0 * dx0 + dy0 * dy0
        min_dist == r1 + r2
        \* dist < 0.001: overlapping centers, dx, dy, dist = 1.0, 0.0, 1.0
        centered == distSq = 0
        dx == IF centered THEN One ELSE dx0
        dy == IF centered THEN 0 ELSE dy0
        dist == IF centered THEN One ELSE SqrtDown(distSq)
        overlap == min_dist - dist
        total_mass == m1 + m2
        s1 == [e1 EXCEPT !.x = e1.x - DivAway(dx * overlap * m2, dist * total_mass),
                         !.y = e1.y - DivAway(dy * overlap * m2, dist * total_mass)]
        s2 == [e2 EXCEPT !.x = e2.x + DivAway(dx * overlap * m1, dist * total_mass),
                         !.y = e2.y + DivAway(dy * overlap * m1, dist * total_mass)]
        dvx == e2.vx - e1.vx
        dvy == e2.vy - e1.vy
        dvnNum == dvx * dx + dvy * dy
        dvn == DivT(dvnNum, dist)
        \* j / (m1 * m2) times the normal: j = -(1 + restitution) * dvn / (1/m1 + 1/m2)
        jx == DivT(-(10 + restitution) * dvn * dx, 10 * total_mass * dist)
        jy == DivT(-(10 + restitution) * dvn * dy, 10 * total_mass * dist)
    IN  IF distSq >= min_dist * min_dist
        THEN [e1 |-> e1, e2 |-> e2, hit |-> FALSE]
        ELSE IF dvnNum < 0
        THEN [e1 |-> [s1 EXCEPT !.vx = e1.vx - jx * m2, !.vy = e1.vy - jy * m2],
              e2 |-> [s2 EXCEPT !.vx = e2.vx + jx * m1, !.vy = e2.vy + jy * m1],
              hit |-> TRUE]
        ELSE [e1 |-> s1, e2 |-> s2, hit |-> TRUE]

\* handle_all_collisions, lines 199-202 and 226-228: boundaries of all entities.
EnforceAll(w) ==
    [players |-> [i \in DOMAIN w.players |->
                     _enforce_boundary(w.players[i], player_radius, FALSE)],
     ball |-> _enforce_boundary(w.ball, ball_radius, TRUE),
     had |-> w.had]

\* handle_all_collisions, lines 205-212: players i..n against the ball.
RECURSIVE PlayerBallCollisions(_, _)
PlayerBallCollisions(w, i) ==
    IF i > Len(w.players) THEN w
    ELSE LET r == _resolve_circle_collision(w.players[i], player_radius,
                                            w.ball, ball_radius,
                                            player_mass, ball_mass, 9)
         IN  PlayerBallCollisions(
                 [players |-> [w.players EXCEPT ![i] = r.e1],
                  ball |-> r.e2,
                  had |-> w.had \/ r.hit], i + 1)

\* handle_all_collisions, lines 215-223: the pairs (i, j), j >= k, then the
\* pairs of the later players.
RECURSIVE PlayerPlayerCollisions(_, _, _)
PlayerPlayerCollisions(w, i, k) ==
    IF i > Len(w.players) THEN w
    ELSE IF k > Len(w.players) THEN PlayerPlayerCollisions(w, i + 1, i + 2)
    ELSE LET r == _resolve_circle_collision(w.players[i], player_radius,
                                            w.players[k], player_radius,
                                            player_mass, player_mass, 5)
         IN  PlayerPlayerCollisions(
                 [players |-> [w.players EXCEPT ![i] = r.e1, ![k] = r.e2],
                  ball |-> w.ball,
                  had |-> w.had \/ r.hit], i, k + 1)

\* CollisionPass without the boundary enforcement of lines 198-202.
PassEnforcedLast(w) ==
    EnforceAll(PlayerPlayerCollisions(
        PlayerBallCollisions([w EXCEPT !.had = FALSE], 1), 1, 2))

\* One pass of the loop of handle_all_collisions.
CollisionPass(w) ==
    EnforceAll(PlayerPlayerCollisions(
        PlayerBallCollisions(EnforceAll([w EXCEPT !.had = FALSE]), 1), 1, 2))

max_iterations == 10

RECURSIVE CollisionLoop(_, _)

\* handle_all_collisions, lines 230-231: a pass without collision ends the loop.
AfterPass(p, n) == IF ~p.had THEN p ELSE CollisionLoop(p, n - 1)

\* handle_all_collisions, line 195: at most n more passes.
CollisionLoop(w, n) == IF n = 0 THEN w ELSE AfterPass(CollisionPass(w), n)

World(r) == [players |-> r.players, ball |-> r.ball]

\* Physics.handle_all_collisions
handle_all_collisions(w) ==
    World(CollisionLoop([players |-> w.players, ball |-> w.ball, had |-> FALSE],
                        max_iterations))

\* Game._setup_goals: the left goal, defended by team 0, then the right one.
goals ==
    << [x |-> 0, y |-> field_height \div 2, width |-> goal_width,
        height |-> goal_height, team_id |-> 0],
       [x |-> field_width, y |-> field_height \div 2, width |-> goal_width,
        height |-> goal_height, team_id |-> 1] >>

\* Goal.top, Goal.bottom
GoalTop(goal) == goal.y - goal.height \div 2

GoalBottom(goal) == goal.y + goal.height \div 2

\* CrossedLeft testing the center of the ball instead of the entire ball.
CenterCrossedLeft(b) == b.x <= 0

\* Physics.check_goal, line 248: the entire ball is past x = 0.
CrossedLeft(b) == b.x + ball_radius <= 0

\* Physics.check_goal, line 252: the entire ball is past the field width.
CrossedRight(b) == b.x - ball_radius >= field_width

\* Physics.check_goal: the goals from the i-th on.
RECURSIVE CheckGoalFrom(_, _, _)
CheckGoalFrom(b, gs, i) ==
    IF i > Len(gs) THEN None
    ELSE LET goal == gs[i]
         IN  IF ~(GoalTop(goal) <= b.y /\ b.y <= GoalBottom(goal))
             THEN CheckGoalFrom(b, gs, i + 1)
             ELSE IF goal.team_id = 0
             THEN IF CrossedLeft(b)
                  THEN 1 - goal.team_id
                  ELSE CheckGoalFrom(b, gs, i + 1)
             ELSE IF CrossedRight(b)
                  THEN 1 - goal.team_id
                  ELSE CheckGoalFrom(b, gs, i + 1)

check_goal(b, gs) == CheckGoalFrom(b, gs, 1)

----------------------------------------------------------------------------
(* Game engine (src/game/engine.py) *)

NeutralAction == Action(0, 0, FALSE)

NoImpulse == [i \in Agents |-> <<0, 0>>]

NoActions == <<>>

NoSnapshot == <<>>

\* PlayerState.from_player: the fields of the player, copied.
from_player(player) ==
    [x |-> player.x, y |-> player.y, vx |-> player.vx, vy |-> player.vy,
     team_id |-> player.team_id, player_id |-> player.player_id,
     kick_cooldown |-> player.kick_cooldown]

\* from_ball keeping a reference to the live ball instead of its fields.
BallReference(b) == [ref |-> "ball"]

\* BallState.from_ball: the fields of the ball, copied.
from_ball(b) == [x |-> b.x, y |-> b.y, vx |-> b.vx, vy |-> b.vy]

\* Game.get_state: the snapshot of the given players, ball, score, tick and
\* status.
get_state(ps, b, sc, t, st) ==
    [players |-> [i \in DOMAIN ps |-> from_player(ps[i])],
     ball |-> from_ball(b),
     score |-> <<sc[0], sc[1]>>,
     tick |-> t,
     status |-> st,
     field_width |-> field_width,
     field_height |-> field_height,
     goal_height |-> goal_height]

\* What a reader of the snapshot s finds in it while the live ball is b: a
\* part of s that refers to the live ball reads as the live ball.
Contents(s, b) ==
    IF "ref" \in DOMAIN s.ball
    THEN [s EXCEPT !.ball = [x |-> b.x, y |-> b.y, vx |-> b.vx, vy |-> b.vy]]
    ELSE s

\* GameLogger.__init__: log_interval, every tick by default.
log_interval == 1

\* GameLogger.log_state on a snapshot of tick t: kept unless the logger is
\* finalized or the tick is not a multiple of log_interval.
log_state(sts, fin, t) ==
    IF fin THEN sts
    ELSE IF t % log_interval = 0 THEN Append(sts, t) ELSE sts

\* The calls of step that returned each team, after one more that returns r.
Returning(rs, r) == IF r = None THEN rs ELSE [rs EXCEPT ![r] = @ + 1]

\* Game._setup_players: team 0 then team 1, at rest, cooldown 0.
SetupPlayers ==
    [i \in Agents |->
        LET pos == get_initial_player_positions(TeamOf(i))[PlayerIdOf(i) + 1]
        IN  [x |-> pos[1], y |-> pos[2], vx |-> 0, vy |-> 0,
             team_id |-> TeamOf(i), player_id |-> PlayerIdOf(i),
             kick_cooldown |-> 0]]

\* Game._setup_ball with the drawn velocity v.
SetupBall(v) ==
    [x |-> get_initial_ball_position[1], y |-> get_initial_ball_position[2],
     vx |-> v[1], vy |-> v[2]]

\* CooldownTick without the decrement of line 165.
CooldownStuck(cd) == cd

\* CooldownTick without the test of line 164.
CooldownUnguarded(cd) == cd - 1

\* Game._process_kicks, lines 164-165: the cooldown counts down to zero.
CooldownTick(cd) == IF cd > 0 THEN cd - 1 ELSE cd

\* Game._process_kicks, line 168: the player wants to kick and can kick.
KickLegal(action, cd) == action.kick /\ cd = 0

\* Game._process_kicks, the body of the loop for player i.  k carries the
\* players, the ball and the impulse each player's kick gave the ball.
KickOne(k, acts, i) ==
    LET player == k.players[i]
        action == acts[i]
        cd == CooldownTick(player.kick_cooldown)
        dx == k.ball.x - player.x
        dy == k.ball.y - player.y
        distSq == dx * dx + dy * dy
        dist == SqrtUp(distSq)
        speedSq == SpeedSq(player)
        player_speed == SqrtUp(speedSq)
        in_range == distSq <= kick_range * kick_range
        imp == IF distSq > 0
               THEN <<DivT(dx * kick_power, dist), DivT(dy * kick_power, dist)>>
               ELSE IF speedSq > 0
               THEN <<DivT(player.vx * kick_power, player_speed),
                      DivT(player.vy * kick_power, player_speed)>>
               ELSE <<0, 0>>
    IN  IF KickLegal(action, cd)
        THEN IF in_range
             THEN [players |-> [k.players EXCEPT
                                  ![i].kick_cooldown = kick_cooldown_ticks],
                   ball |-> [k.ball EXCEPT !.vx = k.ball.vx + imp[1],
                                           !.vy = k.ball.vy + imp[2]],
                   impulse |-> [k.impulse EXCEPT ![i] = imp]]
             ELSE [k EXCEPT !.players[i].kick_cooldown = cd]
        ELSE [k EXCEPT !.players[i].kick_cooldown = cd]

RECURSIVE KickLoop(_, _, _)
KickLoop(k, acts, i) ==
    IF i > Len(k.players) THEN k ELSE KickLoop(KickOne(k, acts, i), acts, i + 1)

\* Game._process_kicks
_process_kicks(w, acts) ==
    KickLoop([players |-> w.players, ball |-> w.ball, impulse |-> NoImpulse],
             acts, 1)

\* Game.reset_positions with the drawn kickoff velocity v and jitters jit.
reset_positions(ps, v, jit) ==
    [players |-> [i \in DOMAIN ps |->
        LET slot == get_initial_player_positions(ps[i].team_id)[ps[i].player_id + 1]
        IN  [ps[i] EXCEPT !.x = slot[1] + jit[i][1],
                          !.y = slot[2] + jit[i][2],
                          !.vx = 0, !.vy = 0, !.kick_cooldown = 0]],
     ball |-> SetupBall(v)]

\* Game.reset_positions, line 140: the largest jitter on either axis.
jitter == 2000

\* NotifyReset over the agents of team 0 only.
NotifyTeam0(rs) ==
    [i \in DOMAIN rs |-> IF TeamOf(i) = 0 THEN rs[i] + 1 ELSE rs[i]]

\* Game.reset_positions, lines 154-155: reset() of every agent of both teams.
NotifyReset(rs) == [i \in DOMAIN rs |-> rs[i] + 1]

\* Game.step, lines 270-274: the returned accelerations applied.
ApplyActions(ps, acts) ==
    [i \in DOMAIN ps |-> apply_acceleration(ps[i], acts[i].ax, acts[i].ay)]

\* TimeUp one tick early.
TimeUpEarly(t) == t >= max_ticks - 1

\* TimeUp with > for >=: the match runs one tick too long.
TimeUpLate(t) == t > max_ticks

\* Game.step, line 295: the time limit.
TimeUp(t) == t >= max_ticks

\* Game.step, lines 291-296: the tick advances; the time limit ends the match.
TickAndLimit(st) ==
    /\ tick' = tick + 1
    /\ status' = IF TimeUp(tick + 1) THEN ENDED ELSE st

GameInit ==
    /\ players = SetupPlayers
    /\ \E v \in KickoffVelocities : ball = SetupBall(v)
    /\ score = [t \in 0..1 |-> 0]
    /\ tick = 0
    /\ status = RUNNING
    /\ goal_celebration_remaining = 0
    /\ pending_goal_scorer = None
    /\ ret = None
    /\ asked = {}
    /\ actions = NoActions
    /\ kick_impulse = NoImpulse
    /\ log = <<>>
    /\ detected_at = None
    /\ snapshot = NoSnapshot
    /\ seen = NoSnapshot
    /\ resets = [i \in Agents |-> 0]
    /\ states = <<>>
    /\ finalized = FALSE
    /\ returned = [t \in 0..1 |-> 0]

ProbeIdle == probe = <<>> /\ result = <<>>

GatherIdle ==
    /\ gpc = "idle"
    /\ fut = <<>>
    /\ deadline_passed = FALSE
    /\ gactions = <<>>
    /\ gcall = 0

Init == GameInit /\ ProbeIdle /\ GatherIdle

\* StepEnded with the test of line 236 after the logging of lines 239-243.
StepEndedLogs ==
    /\ status # RUNNING
    /\ log' = Append(log, tick)
    /\ ret' = None
    /\ asked' = {}
    /\ seen' = NoSnapshot
    /\ UNCHANGED <<players, ball, score, tick, status, goal_celebration_remaining,
                   pending_goal_scorer, actions, kick_impulse, detected_at,
                   snapshot, resets, states, finalized, returned>>
    /\ UNCHANGED <<probeVars, gatherVars>>

\* Game.step, lines 236-237: not running, nothing happens.
StepEnded ==
    /\ status # RUNNING
    /\ ret' = None
    /\ asked' = {}
    /\ seen' = NoSnapshot
    /\ UNCHANGED <<players, ball, score, tick, status, goal_celebration_remaining,
                   pending_goal_scorer, actions, kick_impulse, log, detected_at,
                   snapshot, resets, states, finalized, returned>>
    /\ UNCHANGED <<probeVars, gatherVars>>

\* Game.step, lines 250-251 and 280-281: the physics of one tick.
PhysicsTick(w) == handle_all_collisions(update_positions(w))

\* CreditDue without the test of the countdown: every celebration tick credits.
CreditEveryTick(remaining, scorer) == scorer # None

\* CreditDue with the countdown tested one tick early.
CreditOneEarly(remaining, scorer) == remaining <= 1 /\ scorer # None

\* Game.step, line 256: the celebration ended with a goal pending.
CreditDue(remaining, scorer) == remaining = 0 /\ scorer # None

\* WinReached with > for >=.
WinExceeded(s) == s > win_score

\* Game.step, line 263: the win condition.
WinReached(s) == s >= win_score

\* Game.step, lines 253-264, once the physics has produced the world w.
CelebrationEffect(w) ==
    LET credit == CreditDue(goal_celebration_remaining - 1, pending_goal_scorer)
    IN  /\ goal_celebration_remaining' = goal_celebration_remaining - 1
        /\ IF credit
           THEN /\ score' = [score EXCEPT ![pending_goal_scorer] = @ + 1]
                /\ \E v \in KickoffVelocities, jit \in [Agents -> JitterChoices] :
                     /\ players' = reset_positions(w.players, v, jit).players
                     /\ ball' = reset_positions(w.players, v, jit).ball
                /\ resets' = NotifyReset(resets)
                /\ pending_goal_scorer' = None
                /\ ret' = pending_goal_scorer
                /\ TickAndLimit(IF WinReached(score'[pending_goal_scorer])
                                THEN ENDED ELSE status)
           ELSE /\ players' = w.players
                /\ ball' = w.ball
                /\ ret' = None
                /\ UNCHANGED <<score, pending_goal_scorer, resets>>
                /\ TickAndLimit(status)

\* Game.step, lines 269-277: accelerations applied, then kicks processed.
ActOn(ps, b, acts) ==
    _process_kicks([players |-> ApplyActions(ps, acts), ball |-> b], acts)

\* GoalCheckEffect without line 287: the scorer is recorded but no countdown
\* is started.
GoalCheckNoCountdown(w, detected_scorer) ==
    /\ players' = w.players
    /\ ball' = w.ball
    /\ IF detected_scorer # None
       THEN /\ pending_goal_scorer' = detected_scorer
            /\ detected_at' = tick + 1
            /\ UNCHANGED goal_celebration_remaining
       ELSE UNCHANGED <<goal_celebration_remaining, pending_goal_scorer,
                        detected_at>>
    /\ ret' = detected_scorer

\* Game.step, lines 284-289, once the physics has produced the world w.
GoalCheckEffect(w, detected_scorer) ==
    /\ players' = w.players
    /\ ball' = w.ball
    /\ IF detected_scorer # None
       THEN /\ goal_celebration_remaining' = goal_celebration_ticks
            /\ pending_goal_scorer' = detected_scorer
            /\ detected_at' = tick + 1
       ELSE UNCHANGED <<goal_celebration_remaining, pending_goal_scorer,
                        detected_at>>
    /\ ret' = detected_scorer

NormalEffect(w) == GoalCheckEffect(w, check_goal(w.ball, goals))

KickEffect(kicked) ==
    /\ kick_impulse' = kicked.impulse
    /\ NormalEffect(PhysicsTick(kicked))

\* Game.step, lines 239-243 and 266-296: the snapshot is logged and a tick of
\* normal play follows.  acts is the dict that _get_agent_actions returns.
PlayWith(acts) ==
    /\ snapshot' = get_state(players, ball, score, tick, status)
    /\ seen' = [i \in Agents |-> snapshot']
    /\ log' = Append(log, tick)
    /\ states' = log_state(states, finalized, tick)
    /\ UNCHANGED finalized
    /\ KickEffect(ActOn(players, ball, acts))
    /\ returned' = Returning(returned, ret')
    /\ actions' = acts
    /\ asked' = Agents
    /\ UNCHANGED <<score, resets>>
    /\ TickAndLimit(status)
    /\ UNCHANGED <<probeVars, gatherVars>>

\* A tick of normal play in which every decision source answers.
NormalPlay ==
    \E acts \in [Agents -> UNION {AgentActions(t) : t \in 0..1}] :
        /\ \A i \in Agents : acts[i] \in AgentActions(TeamOf(i))
        /\ PlayWith(acts)

\* Game.step, lines 239-243 and 249-264: the snapshot is logged and a tick of
\* the celebration follows.
CelebrationPlay ==
    /\ snapshot' = get_state(players, ball, score, tick, status)
    /\ seen' = NoSnapshot
    /\ log' = Append(log, tick)
    /\ states' = log_state(states, finalized, tick)
    /\ UNCHANGED finalized
    /\ CelebrationEffect(PhysicsTick([players |-> players, ball |-> ball]))
    /\ returned' = Returning(returned, ret')
    /\ asked' = {}
    /\ actions' = NoActions
    /\ kick_impulse' = NoImpulse
    /\ UNCHANGED detected_at
    /\ UNCHANGED <<probeVars, gatherVars>>

\* StepCelebration with the celebration test of line 248 lost: agents are
\* asked and play goes on while the countdown is active.
StepCelebrationPlaysOn ==
    /\ status = RUNNING
    /\ goal_celebration_remaining > 0
    /\ NormalPlay

\* Game.step, lines 248-264: a tick of the goal celebration.
StepCelebration ==
    /\ status = RUNNING
    /\ goal_celebration_remaining > 0
    /\ CelebrationPlay

\* Game.step, lines 265-289: a tick of normal play.
StepNormal ==
    /\ status = RUNNING
    /\ ~(goal_celebration_remaining > 0)
    /\ NormalPlay

\* RunFinish without the log_state of line 307.
RunFinalizesOnly ==
    /\ status # RUNNING
    /\ finalized' = TRUE
    /\ UNCHANGED <<players, ball, score, tick, status, goal_celebration_remaining,
                   pending_goal_scorer, ret, asked, actions, kick_impulse, log,
                   detected_at, snapshot, seen, resets, states, returned>>
    /\ UNCHANGED <<probeVars, gatherVars>>

\* Game.run, lines 302 and 305-308: the loop is over; the final state is
\* offered to the logger and the logger is finalized.
RunFinish ==
    /\ status # RUNNING
    /\ states' = log_state(states, finalized, tick)
    /\ finalized' = TRUE
    /\ UNCHANGED <<players, ball, score, tick, status, goal_celebration_remaining,
                   pending_goal_scorer, ret, asked, actions, kick_impulse, log,
                   detected_at, snapshot, seen, resets, returned>>
    /\ UNCHANGED <<probeVars, gatherVars>>

\* run_game (src/main.py), lines 159-183, with visualization: the loop of
\* steps is over with the match ended; a logger not yet finalized gets the
\* final state and is finalized.
RunGameFinish ==
    /\ status # RUNNING
    /\ ~finalized
    /\ states' = log_state(states, finalized, tick)
    /\ finalized' = TRUE
    /\ UNCHANGED <<players, ball, score, tick, status, goal_celebration_remaining,
                   pending_goal_scorer, ret, asked, actions, kick_impulse, log,
                   detected_at, snapshot, seen, resets, returned>>
    /\ UNCHANGED <<probeVars, gatherVars>>

\* Game.get_winner, lines 312-320: None for a match not ended or drawn.
get_winner(st, sc) ==
    IF st # ENDED THEN None
    ELSE IF sc[0] > sc[1] THEN 0
    ELSE IF sc[1] > sc[0] THEN 1
    ELSE None

Next ==
    StepEnded \/ StepCelebration \/ StepNormal \/ RunFinish \/ RunGameFinish

Spec == Init /\ [][Next]_vars

\* A step of Game.run's loop: the match runs and step executes a tick.
RunStep == status = RUNNING /\ tick' = tick + 1

\* Game.run, lines 302-303: the loop calls step as long as the match runs,
\* so an executed step, which is possible whenever status is RUNNING, is
\* eventually taken.
LiveSpec == Init /\ [][Next]_vars /\ WF_tick(RunStep)

----------------------------------------------------------------------------
(* A match picked up in mid course: the entities are where long play can  *)
(* have taken them (at walls, in corners, before a goal), a few ticks      *)
(* before the tick limit.                                                  *)

\* Steps left before the tick limit when the match is picked up.
MidSteps == 3

\* Position and velocity <<x, y, vx, vy>> of the i-th player: in the top-left
\* and bottom-right corners moving outward, at its formation slot, at the
\* left wall, and next to the top-left corner moving into it.
MidPlacings(i) ==
    IF i = 1
    THEN {<<450, 450, -300, -400>>, <<7500, 3500, 300, 400>>,
          <<3400, 2000, 0, 0>>, <<350, 2000, -500, 0>>}
    ELSE {<<4600, 2000, 0, 0>>, <<1100, 450, -500, 0>>}

\* Position and velocity of the ball: at rest at the kickoff point, shot at
\* the left goal, at the right wall below the goal, in the bottom-left corner.
MidBalls ==
    {<<4000, 2000, 0, 0>>, <<300, 2000, -1500, 0>>,
     <<7700, 3100, 1000, 800>>, <<400, 3600, -800, 800>>}

\* No two entities overlap when the match is picked up.
Apart(ps, b) ==
    /\ \A i \in Agents :
         (ps[i].x - b.x) * (ps[i].x - b.x) + (ps[i].y - b.y) * (ps[i].y - b.y)
            >= (player_radius + ball_radius) * (player_radius + ball_radius)
    /\ \A i, k \in Agents :
         i # k => (ps[i].x - ps[k].x) * (ps[i].x - ps[k].x)
                    + (ps[i].y - ps[k].y) * (ps[i].y - ps[k].y)
                  >= (2 * player_radius) * (2 * player_radius)

MidInit ==
    /\ \E pl \in [Agents -> UNION {MidPlacings(i) : i \in Agents}] :
         /\ \A i \in Agents : pl[i] \in MidPlacings(i)
         /\ players = [i \in Agents |->
                         [SetupPlayers[i] EXCEPT !.x = pl[i][1], !.y = pl[i][2],
                                                 !.vx = pl[i][3], !.vy = pl[i][4]]]
    /\ \E b \in MidBalls :
         ball = [x |-> b[1], y |-> b[2], vx |-> b[3], vy |-> b[4]]
    /\ Apart(players, ball)
    /\ score = [t \in 0..1 |-> 0]
    /\ tick = max_ticks - MidSteps
    /\ status = RUNNING
    /\ goal_celebration_remaining = 0
    /\ pending_goal_scorer = None
    /\ ret = None
    /\ asked = {}
    /\ actions = NoActions
    /\ kick_impulse = NoImpulse
    /\ log = [k \in 1..(max_ticks - MidSteps) |-> k - 1]
    /\ detected_at = None
    /\ snapshot = NoSnapshot
    /\ seen = NoSnapshot
    /\ resets = [i \in Agents |-> 0]
    /\ states = [k \in 1..(max_ticks - MidSteps) |-> k - 1]
    /\ finalized = FALSE
    /\ returned = [t \in 0..1 |-> 0]

InitMid == MidInit /\ ProbeIdle /\ GatherIdle

SpecMid == InitMid /\ [][Next]_vars

----------------------------------------------------------------------------
(* A match between decision sources that never act: one player per team at *)
(* rest, the ball at the field center, at rest or rolling.                 *)

\* Where the i-th player stands, at rest, clear of the ball and the walls.
IdlePlacings(i) ==
    IF i = 1
    THEN {<<3400, 2000>>, <<3400, 1000>>, <<2000, 3000>>, <<1000, 2000>>}
    ELSE {<<4600, 2000>>, <<4600, 3000>>, <<6000, 1000>>, <<7000, 2000>>}

\* Velocity of the ball at the start: at rest, or rolling to either goal.
IdleBallVelocities == {<<0, 0>>, <<-2000, 0>>, <<2000, 100>>}

InitNeutral ==
    /\ \E pl \in [Agents -> UNION {IdlePlacings(i) : i \in Agents}] :
         /\ \A i \in Agents : pl[i] \in IdlePlacings(i)
         /\ players = [i \in Agents |->
                         [SetupPlayers[i] EXCEPT !.x = pl[i][1], !.y = pl[i][2]]]
    /\ \E v \in IdleBallVelocities : ball = SetupBall(v)
    /\ Apart(players, ball)
    /\ score = [t \in 0..1 |-> 0]
    /\ tick = 0
    /\ status = RUNNING
    /\ goal_celebration_remaining = 0
    /\ pending_goal_scorer = None
    /\ ret = None
    /\ asked = {}
    /\ actions = NoActions
    /\ kick_impulse = NoImpulse
    /\ log = <<>>
    /\ detected_at = None
    /\ snapshot = NoSnapshot
    /\ seen = NoSnapshot
    /\ resets = [i \in Agents |-> 0]
    /\ states = <<>>
    /\ finalized = FALSE
    /\ returned = [t \in 0..1 |-> 0]
    /\ ProbeIdle
    /\ GatherIdle

\* Game.step, lines 265-289, every decision source returning Action(0, 0).
StepNeutral ==
    /\ status = RUNNING
    /\ ~(goal_celebration_remaining > 0)
    /\ PlayWith([i \in Agents |-> NeutralAction])

NextNeutral == StepEnded \/ StepCelebration \/ StepNeutral

\* Game.run, lines 302-303: the loop takes a step as long as the match runs.
SpecNeutral == InitNeutral /\ [][NextNeutral]_vars /\ WF_tick(RunStep)

----------------------------------------------------------------------------
(* Properties of the game engine *)

\* The step being taken is an executed tick of normal play.
NormalTick == status = RUNNING /\ goal_celebration_remaining = 0 /\ tick' = tick + 1

\* The step being taken is an executed tick of the goal celebration.
CelebrationTick == status = RUNNING /\ goal_celebration_remaining > 0 /\ tick' = tick + 1

\* C2, as stated: in a tick of normal play, a player whose cooldown is
\* greater than 0 at the start of the tick (1 included) and whose action
\* requests a kick gives the ball no impulse, and its cooldown afterwards is
\* the previous value minus 1.
C2_KickWhileCoolingAny ==
    [][\A i \in Agents :
         (NormalTick /\ players[i].kick_cooldown > 0 /\ actions'[i].kick)
            => /\ kick_impulse'[i] = <<0, 0>>
               /\ players'[i].kick_cooldown = players[i].kick_cooldown - 1]_vars

\* C2, amended: the same for a player whose cooldown is greater than 1 at the
\* start of the tick, that is, still positive after this tick's decrement.
C2_KickWhileCooling ==
    [][\A i \in Agents :
         (NormalTick /\ players[i].kick_cooldown > 1 /\ actions'[i].kick)
            => /\ kick_impulse'[i] = <<0, 0>>
               /\ players'[i].kick_cooldown = players[i].kick_cooldown - 1]_vars

\* C2's case has happened: a player asked to kick in the last tick while its
\* cooldown was above 1; it is now one lower and the ball got no impulse.
C2_Witness ==
    /\ actions # NoActions
    /\ kick_cooldown_ticks >= 2
    /\ \E i \in Agents :
         /\ actions[i].kick
         /\ players[i].kick_cooldown = kick_cooldown_ticks - 1
         /\ kick_impulse[i] = <<0, 0>>

\* C3: in a tick of normal play, a player whose action requests a kick and
\* whose cooldown is zero has its cooldown set to kick_cooldown_ticks on that
\* tick, whether or not the ball got an impulse (ball in or out of range).
C3_LegalKickResetsCooldown ==
    [][\A i \in Agents :
         (NormalTick /\ players[i].kick_cooldown = 0 /\ actions'[i].kick)
            => players'[i].kick_cooldown = kick_cooldown_ticks]_vars

\* C4: every player's speed is at most player_max_speed and the ball's speed
\* at most ball_max_speed after every executed step.
C4_SpeedInvariant ==
    /\ \A i \in Agents :
         players[i].vx * players[i].vx + players[i].vy * players[i].vy
            <= player_max_speed * player_max_speed
    /\ ball.vx * ball.vx + ball.vy * ball.vy <= ball_max_speed * ball_max_speed

\* C5: the score changes only on a celebration tick whose countdown reaches
\* zero, and then the pending team's score goes up by exactly 1 and the other
\* is unchanged, goal_celebration_ticks executed steps after the detection;
\* the tick that detects a goal leaves the score alone and the ball where it
\* crossed the line.
C5_ScoreAtCountdownZero ==
    [][/\ (score' # score \/ (CelebrationTick /\ goal_celebration_remaining' = 0))
          => /\ CelebrationTick
             /\ goal_celebration_remaining' = 0
             /\ pending_goal_scorer \in {0, 1}
             /\ score'[pending_goal_scorer] = score[pending_goal_scorer] + 1
             /\ score'[1 - pending_goal_scorer] = score[1 - pending_goal_scorer]
             /\ tick' = detected_at + goal_celebration_ticks
       /\ (pending_goal_scorer = None /\ pending_goal_scorer' # None)
          => /\ NormalTick
             /\ score' = score
             /\ \/ ball'.x + ball_radius <= 0
                \/ ball'.x - ball_radius >= field_width]_vars

\* C5's case has happened: a goal detected goal_celebration_ticks steps ago
\* has just been credited.
C5_Witness ==
    /\ ret \in {0, 1}
    /\ pending_goal_scorer = None
    /\ score[ret] >= 1
    /\ tick = detected_at + goal_celebration_ticks

\* C6: a step that starts with the countdown active asks no decision source,
\* applies no acceleration and processes no kick (no impulse, no cooldown
\* change), and does not evaluate check_goal: the countdown goes down by one
\* and, until it reaches zero, the entities are what position integration and
\* collision handling make of them.
C6_CelebrationFreezesDecisions ==
    [][CelebrationTick
         => /\ asked' = {}
            /\ actions' = NoActions
            /\ kick_impulse' = NoImpulse
            /\ goal_celebration_remaining' = goal_celebration_remaining - 1
            /\ goal_celebration_remaining' > 0
                 => /\ \A i \in Agents :
                         players'[i].kick_cooldown = players[i].kick_cooldown
                    /\ pending_goal_scorer' = pending_goal_scorer
                    /\ players' = PhysicsTick([players |-> players,
                                               ball |-> ball]).players
                    /\ ball' = PhysicsTick([players |-> players,
                                            ball |-> ball]).ball]_vars

\* C6's case has happened: a celebration tick has run and the countdown is
\* still active, with the ball still past a goal line.
C6_Witness ==
    /\ 0 < goal_celebration_remaining
    /\ goal_celebration_remaining < goal_celebration_ticks
    /\ asked = {}
    /\ (ball.x + ball_radius <= 0 \/ ball.x - ball_radius >= field_width)

\* C7: while the match is running both scores are below win_score, and no
\* score ever exceeds win_score: the step that brings a score to win_score
\* ends the match.
C7_WinCheck ==
    /\ status = RUNNING => (score[0] < win_score /\ score[1] < win_score)
    /\ score[0] <= win_score /\ score[1] <= win_score

\* C7's case has happened: a score reached win_score before the tick limit.
C7_Witness ==
    /\ status = ENDED
    /\ tick < max_ticks
    /\ \E t \in 0..1 : score[t] = win_score

\* C8: every executed step adds exactly 1 to tick; a step that makes
\* tick >= max_ticks ends the match whatever the score or the countdown; tick
\* never exceeds max_ticks, and the run loop terminates.
C8_TickLimit ==
    /\ [][status = RUNNING
            => /\ tick' = tick + 1
               /\ tick' >= max_ticks => status' = ENDED]_vars
    /\ [](tick <= max_ticks)
    /\ <>(status = ENDED)

\* C8's case has happened: the tick limit ended the match while a celebration
\* was active and no team had won.
C8_Witness ==
    /\ status = ENDED
    /\ tick = max_ticks
    /\ goal_celebration_remaining > 0
    /\ score[0] < win_score /\ score[1] < win_score

\* C9: a call of step when the match has ended (a step of the ended match
\* other than the finalization of the logger by run or run_game) returns
\* None, leaves players, ball, score, tick, status, countdown and pending
\* scorer as they are, asks no decision source and logs no snapshot.
C9_StepEndedNoOp ==
    [][(status = ENDED /\ finalized' = finalized)
         => /\ UNCHANGED <<players, ball, score, tick, status,
                           goal_celebration_remaining, pending_goal_scorer, log>>
            /\ ret' = None
            /\ asked' = {}]_vars

\* C9's case has happened: step was called after the match ended (the last
\* executed step either asked the agents, returned a scorer, or left the
\* countdown active).
C9_Witness ==
    /\ status = ENDED
    /\ ret = None
    /\ asked = {}
    /\ goal_celebration_remaining = 0
    /\ Len(log) = tick

\* C11: at the end of every executed step every player lies inside the
\* rounded rectangle shrunk by its radius (inside the straight walls, and
\* within corner_radius - radius of the arc center when in a corner
\* quadrant), and so does the ball unless its y is within the vertical span
\* of the goal mouth.
C11_Containment ==
    LET inside(e, radius) ==
            LET cx == IF e.x < corner_radius THEN corner_radius
                      ELSE field_width - corner_radius
                cy == IF e.y < corner_radius THEN corner_radius
                      ELSE field_height - corner_radius
                inQuadrant ==
                    /\ (e.x < corner_radius \/ e.x > field_width - corner_radius)
                    /\ (e.y < corner_radius \/ e.y > field_height - corner_radius)
            IN  IF inQuadrant
                THEN (e.x - cx) * (e.x - cx) + (e.y - cy) * (e.y - cy)
                        <= (corner_radius - radius) * (corner_radius - radius)
                ELSE /\ radius <= e.x /\ e.x <= field_width - radius
                     /\ radius <= e.y /\ e.y <= field_height - radius
        inMouth == /\ field_height \div 2 - goal_height \div 2 <= ball.y
                   /\ ball.y <= field_height \div 2 + goal_height \div 2
    IN  /\ \A i \in Agents : inside(players[i], player_radius)
        /\ inMouth \/ inside(ball, ball_radius)

\* C11's case has happened: a step has put a player that had left the
\* top-left corner back onto the limit circle, the other player touching it.
C11_Witness ==
    /\ tick > max_ticks - MidSteps
    /\ \E i, k \in Agents :
         /\ i # k
         /\ players[i].x < corner_radius /\ players[i].y < corner_radius
         /\ (players[i].x - corner_radius) * (players[i].x - corner_radius)
              + (players[i].y - corner_radius) * (players[i].y - corner_radius)
            > (corner_radius - player_radius - 2) * (corner_radius - player_radius - 2)
         /\ (players[i].x - players[k].x) * (players[i].x - players[k].x)
              + (players[i].y - players[k].y) * (players[i].y - players[k].y)
            <= (2 * player_radius + 2) * (2 * player_radius + 2)

\* The snapshot s holds exactly the given players, ball, score, tick and status.
HoldsExactly(s, ps, b, sc, t, st) ==
    /\ DOMAIN s.players = DOMAIN ps
    /\ \A i \in DOMAIN ps :
         /\ s.players[i].x = ps[i].x /\ s.players[i].y = ps[i].y
         /\ s.players[i].vx = ps[i].vx /\ s.players[i].vy = ps[i].vy
         /\ s.players[i].team_id = ps[i].team_id
         /\ s.players[i].player_id = ps[i].player_id
         /\ s.players[i].kick_cooldown = ps[i].kick_cooldown
    /\ s.ball = [x |-> b.x, y |-> b.y, vx |-> b.vx, vy |-> b.vy]
    /\ s.score[1] = sc[0] /\ s.score[2] = sc[1]
    /\ s.tick = t
    /\ s.status = st

\* C14: in every executed tick the snapshot the step took, read after the
\* tick's acceleration, kicks, physics and reset have changed the live
\* entities, still holds the players, ball, score, tick and status of the
\* start of the tick, and in a tick of normal play every agent was handed
\* that same snapshot.
C14_SnapshotFrozen ==
    [][tick' = tick + 1 =>
         /\ HoldsExactly(Contents(snapshot', ball'), players, ball, score, tick,
                         status)
         /\ NormalTick =>
              \A i \in Agents :
                  /\ seen'[i] = snapshot'
                  /\ HoldsExactly(Contents(seen'[i], ball'), players, ball,
                                  score, tick, status)]_vars

\* After a tick of normal play the ball and a player are no longer where the
\* snapshot handed to the agents has them.
C14_Witness ==
    /\ seen # NoSnapshot
    /\ \E i \in Agents :
         /\ seen[i].tick = tick - 1
         /\ seen[i].ball.x # ball.x
         /\ seen[i].players[i].vx # players[i].vx
         /\ seen[i].players[i].kick_cooldown # players[i].kick_cooldown

\* C18: at the end of a step that credits a pending goal the ball is at the
\* kickoff position, every player is at rest with kick cooldown 0 within
\* the jitter bound of its formation slot, the pending scorer is cleared and
\* every agent of both teams has had exactly one more reset notification;
\* a step that credits no goal sends no reset notification.
C18_ResetAfterGoal ==
    [][IF score' # score
       THEN /\ ball'.x = get_initial_ball_position[1]
            /\ ball'.y = get_initial_ball_position[2]
            /\ \A i \in Agents :
                 LET slot == get_initial_player_positions(TeamOf(i))[PlayerIdOf(i) + 1]
                 IN  /\ players'[i].vx = 0 /\ players'[i].vy = 0
                     /\ players'[i].kick_cooldown = 0
                     /\ Abs(players'[i].x - slot[1]) <= jitter
                     /\ Abs(players'[i].y - slot[2]) <= jitter
                     /\ resets'[i] = resets[i] + 1
            /\ pending_goal_scorer' = None
       ELSE resets' = resets]_vars

\* A goal has just been credited and the players put back off their slots'
\* exact positions.
C18_Witness ==
    /\ ret # None
    /\ pending_goal_scorer = None
    /\ score[0] + score[1] = 1
    /\ \A i \in Agents : resets[i] = 1
    /\ \E i \in Agents :
         players[i].x # get_initial_player_positions(TeamOf(i))[PlayerIdOf(i) + 1][1]

\* C19: every player's kick cooldown is always an integer from 0 to
\* kick_cooldown_ticks, and from one step to the next it either stays, or
\* goes down by 1 in a tick of normal play, or is kick_cooldown_ticks after a
\* tick in which the player asked for a kick, or is 0 after a reset.
C19_CooldownInvariant ==
    /\ [](\A i \in Agents : players[i].kick_cooldown \in 0..kick_cooldown_ticks)
    /\ [][\A i \in Agents :
            LET cd  == players[i].kick_cooldown
                cd2 == players'[i].kick_cooldown
            IN  \/ cd2 = cd
                \/ NormalTick /\ cd > 0 /\ cd2 = cd - 1
                \/ NormalTick /\ actions'[i].kick /\ cd2 = kick_cooldown_ticks
                \/ score' # score /\ cd2 = 0]_vars

\* After a reset a player has kicked and its cooldown has since gone down by
\* one.
C19_Witness ==
    /\ score[0] + score[1] >= 1
    /\ \E i \in Agents :
         /\ resets[i] >= 1
         /\ players[i].kick_cooldown = kick_cooldown_ticks - 1
         /\ players[i].kick_cooldown > 0

\* C25: the logger of a match keeps one snapshot per executed step, with the
\* ticks 0, 1, ..., T-1 in this order; once the match has been run to its end
\* these are followed by exactly one snapshot of the final state, of tick T,
\* and the logger is finalized once: a finalized logger never changes again.
C25_LoggingOrder ==
    /\ [](/\ ~finalized => states = [k \in 1..tick |-> k - 1]
          /\ finalized => (status = ENDED /\ states = [k \in 1..(tick + 1) |-> k - 1])
          /\ snapshot # NoSnapshot => states[tick] = snapshot.tick)
    /\ [][finalized => (finalized' /\ states' = states)]_vars

\* A match that saw a goal credited has ended and its logger is finalized.
C25_Witness ==
    /\ finalized
    /\ score[0] + score[1] >= 1
    /\ Len(states) = tick + 1
    /\ states[Len(states)] = tick

\* C28: at every step boundary the countdown is within
\* 0..goal_celebration_ticks and a scorer is pending (team 0 or 1) exactly
\* when the countdown is positive; a step that starts with the countdown
\* active detects and records no goal (the pending scorer stays or is
\* consumed), and the score changes only by one point for the pending scorer,
\* which that step consumes, so a detected goal yields at most one point.
C28_CelebrationState ==
    /\ [](/\ goal_celebration_remaining \in 0..goal_celebration_ticks
          /\ pending_goal_scorer \in {0, 1} <=> goal_celebration_remaining > 0
          /\ pending_goal_scorer = None <=> goal_celebration_remaining = 0)
    /\ [][/\ goal_celebration_remaining > 0
             => /\ detected_at' = detected_at
                /\ pending_goal_scorer' \in {pending_goal_scorer, None}
                /\ goal_celebration_remaining' <= goal_celebration_remaining
          /\ score' # score
             => /\ pending_goal_scorer \in {0, 1}
                /\ pending_goal_scorer' = None
                /\ score' = [score EXCEPT ![pending_goal_scorer] = @ + 1]
          /\ (pending_goal_scorer' # pending_goal_scorer
                 /\ pending_goal_scorer' # None)
             => pending_goal_scorer = None]_vars

\* C28's case has happened: after a credited goal a second goal is pending
\* and its countdown has gone down.
C28_Witness ==
    /\ score[0] + score[1] >= 1
    /\ pending_goal_scorer \in {0, 1}
    /\ goal_celebration_remaining > 0
    /\ goal_celebration_remaining < goal_celebration_ticks

\* Goals detected for team t so far: step returns t when it detects a goal of
\* t (line 289) and again when it credits it (line 257), so the detections
\* are the returns of t that were not credits.
DetectedFor(t) == returned[t] - score[t]

\* C29: a match ended with a scorer still pending was ended by the tick limit
\* during the countdown, and that goal is detected but not in the score; an
\* ended match never changes its score or its pending scorer; each team's
\* score is at most the goals detected for it; and through tick
\* goal_celebration_ticks no goal is credited, so a match whose tick limit is
\* at most goal_celebration_ticks ends 0-0 and get_winner returns None.
C29_PendingGoalAtLimit ==
    /\ []((status = ENDED /\ pending_goal_scorer # None)
           => /\ tick >= max_ticks
              /\ goal_celebration_remaining > 0
              /\ pending_goal_scorer \in {0, 1}
              /\ score[pending_goal_scorer] = DetectedFor(pending_goal_scorer) - 1
              /\ score[1 - pending_goal_scorer]
                   = DetectedFor(1 - pending_goal_scorer))
    /\ [](\A t \in 0..1 : score[t] <= DetectedFor(t))
    /\ [](tick <= goal_celebration_ticks
           => /\ score[0] = 0
              /\ score[1] = 0
              /\ get_winner(ENDED, score) = None)
    /\ [][status = ENDED
             => /\ score' = score
                /\ pending_goal_scorer' = pending_goal_scorer
                /\ goal_celebration_remaining' = goal_celebration_remaining
                /\ status' = ENDED]_vars

\* C29's case has happened: the tick limit has ended the match during a
\* countdown, the pending goal is not in the score and get_winner is None.
C29_Witness ==
    /\ status = ENDED
    /\ tick = max_ticks
    /\ Len(log) = max_ticks
    /\ ret = None
    /\ pending_goal_scorer \in {0, 1}
    /\ goal_celebration_remaining > 0
    /\ score[pending_goal_scorer] < DetectedFor(pending_goal_scorer)
    /\ get_winner(status, score) = None

\* C26: the calls of step that returned team t are as many as the goals of
\* t: as many as its goals credited so far, or one more while a goal of t is
\* detected and not yet credited.
C26_EachGoalReportedOnce ==
    \A t \in 0..1 :
        \/ returned[t] = score[t]
        \/ pending_goal_scorer = t /\ returned[t] = score[t] + 1

\* The match starts with the ball at rest (at the field center, clear of the
\* two players, who are at rest).
IdleStart == tick = 0 /\ ball = SetupBall(<<0, 0>>)

\* C20: in a match of one player per team whose decision sources always
\* return zero acceleration and no kick, started with the ball at rest at
\* the field center clear of both players, no entity ever moves, no goal is
\* ever detected, the score stays 0-0, and the match ends, after exactly
\* max_ticks executed steps, by the tick limit.
C20_IdleMatch ==
    IdleStart =>
        /\ [](/\ ball = SetupBall(<<0, 0>>)
              /\ snapshot # NoSnapshot =>
                   \A i \in Agents :
                       /\ players[i].x = snapshot.players[i].x
                       /\ players[i].y = snapshot.players[i].y
                       /\ players[i].vx = 0 /\ players[i].vy = 0
              /\ pending_goal_scorer = None
              /\ goal_celebration_remaining = 0
              /\ ret = None
              /\ score[0] = 0 /\ score[1] = 0
              /\ Len(log) = tick
              /\ tick <= max_ticks
              /\ status = ENDED <=> tick = max_ticks)
        /\ <>(status = ENDED)

\* An idle match has ended: ball and players at rest, all ticks played.
C20_Witness ==
    /\ status = ENDED
    /\ tick = max_ticks
    /\ Len(log) = max_ticks
    /\ ball = SetupBall(<<0, 0>>)
    /\ \A i \in Agents : actions[i] = NeutralAction
    /\ players[1].x = 3400 /\ players[2].x = 4600

----------------------------------------------------------------------------
(* Physics.check_goal on its own *)

\* Ball abscissas around both goal lines, one hundredth apart.
ProbeXs ==
    {-ball_radius - 1, -ball_radius, -ball_radius + 1, -1, 0, 1,
     field_width \div 2,
     field_width - 1, field_width, field_width + 1,
     field_width + ball_radius - 1, field_width + ball_radius,
     field_width + ball_radius + 1}

\* Ball ordinates around the posts of the goals, one hundredth apart.
ProbeYs ==
    {GoalTop(goals[1]) - 1, GoalTop(goals[1]), GoalTop(goals[1]) + 1,
     field_height \div 2,
     GoalBottom(goals[1]) - 1, GoalBottom(goals[1]), GoalBottom(goals[1]) + 1}

ProbeBalls ==
    {[SetupBall(<<0, 0>>) EXCEPT !.x = x, !.y = y] : x \in ProbeXs, y \in ProbeYs}

InitGoal ==
    /\ GameInit
    /\ GatherIdle
    /\ probe \in ProbeBalls
    /\ result = <<>>

\* A call of Physics.check_goal(ball, goals), lines 233-254.
CheckGoalCall ==
    /\ result = <<>>
    /\ result' = <<check_goal(probe, goals)>>
    /\ UNCHANGED <<probe, gameVars, gatherVars>>

NextGoal == CheckGoalCall

SpecGoal == InitGoal /\ [][NextGoal]_vars

\* C10: check_goal returns team 1 exactly when the ball's y is within the
\* left goal's vertical span and x + radius <= 0, team 0 exactly when y is
\* within the right goal's span and x - radius >= field_width, and nothing
\* otherwise; a ball at x = -radius + 0.01 does not score, a ball at
\* x = -radius - 0.01 scores for team 1.
C10_CheckGoalExact ==
    result # <<>> =>
        LET top    == field_height \div 2 - goal_height \div 2
            bottom == field_height \div 2 + goal_height \div 2
            inSpan == top <= probe.y /\ probe.y <= bottom
            left   == inSpan /\ probe.x + ball_radius <= 0
            right  == inSpan /\ probe.x - ball_radius >= field_width
        IN  /\ result[1] = 1 <=> left
            /\ result[1] = 0 <=> right
            /\ result[1] = None <=> (~left /\ ~right)
            /\ (inSpan /\ probe.x = -ball_radius + 1) => result[1] = None
            /\ (inSpan /\ probe.x = -ball_radius - 1) => result[1] = 1

\* C10's case has happened: check_goal has answered for a ball one hundredth
\* past the position where the entire ball is over the left line, at a post.
C10_Witness ==
    /\ result = <<1>>
    /\ probe.x = -ball_radius - 1
    /\ probe.y = field_height \div 2 + goal_height \div 2

----------------------------------------------------------------------------
(* Physics._resolve_circle_collision on its own *)

\* Rounding allowed on a length computed on the fixed-point grid, in
\* hundredths.
Tol == 4

\* Where the second circle's center lies relative to the first's: on it, on
\* an axis, on a diagonal, one hundredth off, and out of reach.
ProbeOffsets ==
    {<<0, 0>>, <<1, 0>>, <<500, 0>>, <<-500, 0>>, <<0, 300>>, <<300, 400>>,
     <<-300, -400>>, <<400, 200>>, <<599, 0>>, <<600, 0>>, <<1000, 0>>,
     <<0, -1999>>, <<2000, 0>>}

\* Radii of the two circles.
ProbeRadii == {<<300, 300>>, <<300, 200>>, <<1000, 1000>>}

\* Masses of the two circles.
ProbeMasses == {<<1, 3>>, <<3, 1>>, <<2, 1>>, <<2, 2>>}

\* Velocities of the two circles: at rest, approaching, separating.
ProbeVelocities ==
    {<<0, 0, 0, 0>>, <<100, 0, -100, 50>>, <<-100, 0, 100, 0>>}

ProbePairs ==
    {[e1 |-> [x |-> 3000, y |-> 2000, vx |-> v[1], vy |-> v[2]],
      e2 |-> [x |-> 3000 + o[1], y |-> 2000 + o[2], vx |-> v[3], vy |-> v[4]],
      r1 |-> r[1], r2 |-> r[2], m1 |-> m[1], m2 |-> m[2]] :
        o \in ProbeOffsets, r \in ProbeRadii, m \in ProbeMasses,
        v \in ProbeVelocities}

InitCollide ==
    /\ GameInit
    /\ GatherIdle
    /\ probe \in ProbePairs
    /\ result = <<>>

\* A call of Physics._resolve_circle_collision(e1, e2, m1, m2, restitution)
\* with the restitution of a player-player collision, line 220.
ResolveCall ==
    /\ result = <<>>
    /\ result' = <<_resolve_circle_collision(probe.e1, probe.r1, probe.e2,
                                             probe.r2, probe.m1, probe.m2, 5)>>
    /\ UNCHANGED <<probe, gameVars, gatherVars>>

NextCollide == ResolveCall

SpecCollide == InitCollide /\ [][NextCollide]_vars

\* Distance between the centers of a and b, rounded down to the grid.
CenterDistance(a, b) ==
    SqrtDown((b.x - a.x) * (b.x - a.x) + (b.y - a.y) * (b.y - a.y))

\* C15: a call on two overlapping circles of masses m1, m2 whose overlap is
\* d = r1 + r2 - distance moves entity 1 by d*m2/(m1+m2) and entity 2 by
\* d*m1/(m1+m2), in opposite directions along the line of the centers
\* (lengths up to the rounding of the grid); masses 1 and 3 with an overlap
\* of 10 units give 7.5 and 2.5 units.
C15_MassWeightedSeparation ==
    (result # <<>> /\ result[1].hit) =>
        LET d   == probe.r1 + probe.r2 - CenterDistance(probe.e1, probe.e2)
            tm  == probe.m1 + probe.m2
            u1x == result[1].e1.x - probe.e1.x
            u1y == result[1].e1.y - probe.e1.y
            u2x == result[1].e2.x - probe.e2.x
            u2y == result[1].e2.y - probe.e2.y
            nx  == probe.e2.x - probe.e1.x
            ny  == probe.e2.y - probe.e1.y
        IN  /\ Abs(SqrtDown(u1x * u1x + u1y * u1y) * tm - d * probe.m2) <= Tol * tm
            /\ Abs(SqrtDown(u2x * u2x + u2y * u2y) * tm - d * probe.m1) <= Tol * tm
            /\ u1x * u2x + u1y * u2y <= 0
            /\ u1x * nx + u1y * ny <= 0
            /\ u2x * nx + u2y * ny >= 0
            /\ (d = 1000 /\ probe.m1 = 1 /\ probe.m2 = 3 /\ ny = 0) =>
                 (Abs(u1x) = 750 /\ Abs(u2x) = 250)

\* C30: a call with positive masses leaves m1*v1 + m2*v2 as it was, in x and
\* in y; a velocity changes only if the circles overlap and their relative
\* velocity along the contact normal is negative; a pair that does not overlap
\* is left exactly as it was and the call returns False.
C30_MomentumConserved ==
    result # <<>> =>
        LET a1 == probe.e1
            a2 == probe.e2
            b1 == result[1].e1
            b2 == result[1].e2
            dx0 == a2.x - a1.x
            dy0 == a2.y - a1.y
            overlapping ==
                dx0 * dx0 + dy0 * dy0
                    < (probe.r1 + probe.r2) * (probe.r1 + probe.r2)
            \* the contact normal of lines 157-163, not normalized
            nx == IF dx0 = 0 /\ dy0 = 0 THEN One ELSE dx0
            ny == IF dx0 = 0 /\ dy0 = 0 THEN 0 ELSE dy0
            approaching == (a2.vx - a1.vx) * nx + (a2.vy - a1.vy) * ny < 0
        IN  /\ probe.m1 > 0 /\ probe.m2 > 0
            /\ probe.m1 * b1.vx + probe.m2 * b2.vx
                 = probe.m1 * a1.vx + probe.m2 * a2.vx
            /\ probe.m1 * b1.vy + probe.m2 * b2.vy
                 = probe.m1 * a1.vy + probe.m2 * a2.vy
            /\ (<<b1.vx, b1.vy, b2.vx, b2.vy>> # <<a1.vx, a1.vy, a2.vx, a2.vy>>)
                 => (overlapping /\ approaching /\ result[1].hit)
            /\ ~overlapping
                 => (b1 = a1 /\ b2 = a2 /\ ~result[1].hit)

\* C30's case has happened: a call on an overlapping, approaching pair of
\* unequal masses has changed both velocities.
C30_Witness ==
    /\ result # <<>>
    /\ result[1].hit
    /\ probe.m1 # probe.m2
    /\ result[1].e1.vx # probe.e1.vx
    /\ result[1].e2.vx # probe.e2.vx
    /\ result[1].e2.vy # probe.e2.vy

\* C16: after a call on two overlapping circles, coincident centers included,
\* the distance between the centers is r1 + r2 (up to the rounding of the
\* grid).
C16_OverlapResolved ==
    (result # <<>> /\ result[1].hit) =>
        Abs(CenterDistance(result[1].e1, result[1].e2) - (probe.r1 + probe.r2))
            <= Tol

----------------------------------------------------------------------------
(* Physics._enforce_boundary on its own *)

\* Positions beyond the limit circle of each corner, on the 3-4-5 directions
\* from the arc's center, positions within it, and positions at the walls.
BoundaryPositions ==
    {<<300, 200>>, <<240, 120>>, <<200, 300>>, <<480, 440>>,
     <<field_width - 300, 200>>, <<field_width - 200, 300>>,
     <<300, field_height - 200>>, <<field_width - 300, field_height - 200>>,
     <<100, 1000>>, <<field_width - 100, 3000>>, <<4000, 100>>,
     <<4000, field_height - 100>>, <<-50, 2000>>, <<100, 800>>,
     <<-300, 999>>, <<-300, 1000>>, <<field_width + 250, 2500>>,
     <<field_width - 100, 3001>>}

\* Velocities: radial and tangential to the 3-4-5 directions, mixed, at rest.
BoundaryVelocities ==
    {<<-300, -400>>, <<300, 400>>, <<-400, 300>>, <<-700, -100>>,
     <<300, -400>>, <<-300, 400>>, <<700, 100>>, <<0, 0>>, <<-500, 0>>,
     <<0, 500>>}

BoundaryProbes ==
    {[e |-> [x |-> q[1], y |-> q[2], vx |-> v[1], vy |-> v[2]], is_ball |-> b] :
        q \in BoundaryPositions, v \in BoundaryVelocities, b \in BOOLEAN}

\* The radius the callers pass for a ball and for a player (lines 200-202).
RadiusOf(is_ball) == IF is_ball THEN ball_radius ELSE player_radius

InitBoundary ==
    /\ GameInit
    /\ GatherIdle
    /\ probe \in BoundaryProbes
    /\ result = <<>>

\* A call of Physics._enforce_boundary(entity, radius, is_ball).
EnforceCall ==
    /\ result = <<>>
    /\ result' = <<_enforce_boundary(probe.e, RadiusOf(probe.is_ball),
                                     probe.is_ball)>>
    /\ UNCHANGED <<probe, gameVars, gatherVars>>

NextBoundary == EnforceCall

SpecBoundary == InitBoundary /\ [][NextBoundary]_vars

\* C17: when a call pushes an entity back from beyond the limit circle of a
\* corner, its velocity component along the radius, d before the call, is
\* -0.8*d afterwards for the ball and -0.5*d for a player if d > 0, the
\* component across the radius is unchanged, and the velocity is unchanged if
\* d <= 0 (components times the distance from the arc's center, up to the
\* rounding of the grid).
C17_CornerRestitution ==
    (result # <<>> /\ _is_in_corner_region(probe.e.x, probe.e.y) # NoCorner) =>
        LET corner  == _is_in_corner_region(probe.e.x, probe.e.y)
            dx      == probe.e.x - corner[1]
            dy      == probe.e.y - corner[2]
            limit   == corner_radius - RadiusOf(probe.is_ball)
            dist    == SqrtUp(dx * dx + dy * dy)
            radial  == probe.e.vx * dx + probe.e.vy * dy
            across  == probe.e.vx * dy - probe.e.vy * dx
            radial2 == result[1].vx * dx + result[1].vy * dy
            across2 == result[1].vx * dy - result[1].vy * dx
            tenths  == IF probe.is_ball THEN 8 ELSE 5
        IN  dx * dx + dy * dy > limit * limit =>
                IF radial > 0
                THEN /\ Abs(10 * radial2 + tenths * radial) <= 10 * Tol * dist
                     /\ Abs(across2 - across) <= Tol * dist
                ELSE result[1].vx = probe.e.vx /\ result[1].vy = probe.e.vy

\* C22: outside the corner regions a call leaves the ball's x and vx alone
\* while its y is within the goal's span from goal_top to goal_bottom,
\* whereas a player beyond the left or the right wall is put at the wall
\* offset by its radius whatever its y; after a call no player is beyond a
\* goal line.
C22_GoalMouthException ==
    result # <<>> =>
        LET goal_top    == field_height \div 2 - goal_height \div 2
            goal_bottom == field_height \div 2 + goal_height \div 2
            in_corner   == _is_in_corner_region(probe.e.x, probe.e.y) # NoCorner
            in_span     == goal_top <= probe.e.y /\ probe.e.y <= goal_bottom
        IN  /\ (probe.is_ball /\ ~in_corner /\ in_span) =>
                 (result[1].x = probe.e.x /\ result[1].vx = probe.e.vx)
            /\ (~probe.is_ball /\ ~in_corner /\ probe.e.x - player_radius < 0) =>
                 result[1].x = player_radius
            /\ (~probe.is_ball /\ ~in_corner
                   /\ probe.e.x + player_radius > field_width) =>
                 result[1].x = field_width - player_radius
            /\ ~probe.is_ball =>
                 (player_radius <= result[1].x
                    /\ result[1].x <= field_width - player_radius)

\* The call has left alone a ball entirely past the left goal line at the
\* upper post.
C22_Witness ==
    /\ result # <<>>
    /\ probe.is_ball
    /\ probe.e.x = -300 /\ probe.e.y = 1000 /\ probe.e.vx = -500
    /\ result[1].x = -300 /\ result[1].vx = -500

----------------------------------------------------------------------------
(* Physics.handle_all_collisions on its own *)

\* Position and velocity <<x, y, vx, vy>> of the i-th player: at its slot,
\* beyond the left wall, on and over the field center, deep in a corner.
CrowdPlacings(i) ==
    IF i = 1
    THEN {<<3400, 2000, 0, 0>>, <<-100, 1000, -300, 0>>, <<3800, 2000, 200, 0>>,
          <<4000, 2000, 0, 0>>, <<150, 150, -300, -300>>, <<350, 1000, 0, 0>>}
    ELSE {<<4600, 2000, 0, 0>>, <<4100, 2000, -200, 0>>, <<450, 1000, 0, 0>>,
          <<3400, 2000, 0, 0>>, <<400, 400, 0, 0>>, <<900, 1000, -400, 0>>}

\* Position and velocity of the ball: at the center, next to the left wall,
\* in a corner, next to the center.
CrowdBalls ==
    {<<4000, 2000, 0, 0>>, <<450, 1000, 0, 0>>, <<200, 200, -500, -500>>,
     <<3700, 2300, 300, -300>>, <<100, 1300, -1000, 0>>}

CrowdWorlds ==
    {[players |-> [i \in Agents |->
                     [SetupPlayers[i] EXCEPT !.x = pl[i][1], !.y = pl[i][2],
                                             !.vx = pl[i][3], !.vy = pl[i][4]]],
      ball |-> [x |-> b[1], y |-> b[2], vx |-> b[3], vy |-> b[4]]] :
        pl \in {q \in [Agents -> UNION {CrowdPlacings(i) : i \in Agents}] :
                   \A i \in Agents : q[i] \in CrowdPlacings(i)},
        b \in CrowdBalls}

InitCrowd ==
    /\ GameInit
    /\ GatherIdle
    /\ probe \in CrowdWorlds
    /\ result = <<>>

\* A call of Physics.handle_all_collisions(players, ball, goals); the result
\* keeps had_collision of the last pass made.
HandleCall ==
    /\ result = <<>>
    /\ result' = <<CollisionLoop([players |-> probe.players, ball |-> probe.ball,
                                  had |-> FALSE], max_iterations)>>
    /\ UNCHANGED <<probe, gameVars, gatherVars>>

NextCrowd == HandleCall

SpecCrowd == InitCrowd /\ [][NextCrowd]_vars

\* C21: when handle_all_collisions returns after a pass that found no
\* collision, no player overlaps the ball and no two players overlap: every
\* center distance is at least the sum of the radii.
C21_NoOverlapAfterResolution ==
    (result # <<>> /\ ~result[1].had) =>
        Apart(result[1].players, result[1].ball)

\* A call on overlapping entities has returned after a pass without collision.
C21_Witness ==
    /\ result # <<>>
    /\ ~result[1].had
    /\ ~Apart(probe.players, probe.ball)
    /\ \E i \in Agents : result[1].players[i].x # probe.players[i].x

----------------------------------------------------------------------------
(* The snapshot classes of src/game/state.py and their dictionary encoding. *)
(* An instance of a dataclass is a record with its class in cls, a dict is  *)
(* a record of its keys, a tuple and a list are told apart by their field.  *)

\* class GameStatus(Enum)
StatusMembers ==
    {[member |-> "RUNNING", value |-> "running"],
     [member |-> "ENDED", value |-> "ended"]}

\* GameStatus(tag): the member whose value is tag.
GameStatus(tag) == CHOOSE m \in StatusMembers : m.value = tag

\* PlayerState.to_dict
PlayerState_to_dict(self) ==
    [x |-> self.x, y |-> self.y, vx |-> self.vx, vy |-> self.vy,
     team_id |-> self.team_id, player_id |-> self.player_id,
     kick_cooldown |-> self.kick_cooldown]

\* PlayerState.from_dict: cls(**data)
PlayerState_from_dict(data) ==
    [cls |-> "PlayerState", x |-> data.x, y |-> data.y, vx |-> data.vx,
     vy |-> data.vy, team_id |-> data.team_id, player_id |-> data.player_id,
     kick_cooldown |-> data.kick_cooldown]

\* BallState.to_dict
BallState_to_dict(self) ==
    [x |-> self.x, y |-> self.y, vx |-> self.vx, vy |-> self.vy]

\* BallState.from_dict: cls(**data)
BallState_from_dict(data) ==
    [cls |-> "BallState", x |-> data.x, y |-> data.y, vx |-> data.vx,
     vy |-> data.vy]

\* GameState.to_dict
GameState_to_dict(self) ==
    [players |-> [list |-> [k \in DOMAIN self.players.tuple |->
                              PlayerState_to_dict(self.players.tuple[k])]],
     ball |-> BallState_to_dict(self.ball),
     score |-> [list |-> self.score.tuple],
     tick |-> self.tick,
     status |-> self.status.value,
     field_width |-> self.field_width,
     field_height |-> self.field_height,
     goal_height |-> self.goal_height]

\* GameState.from_dict without the tuple() of line 123: the score stays the
\* list of the dict.
FromDictScoreList(data) ==
    [cls |-> "GameState",
     players |-> [tuple |-> [k \in DOMAIN data.players.list |->
                               PlayerState_from_dict(data.players.list[k])]],
     ball |-> BallState_from_dict(data.ball),
     score |-> data.score,
     tick |-> data.tick,
     status |-> GameStatus(data.status),
     field_width |-> data.field_width,
     field_height |-> data.field_height,
     goal_height |-> data.goal_height]

\* GameState.from_dict
GameState_from_dict(data) ==
    [cls |-> "GameState",
     players |-> [tuple |-> [k \in DOMAIN data.players.list |->
                               PlayerState_from_dict(data.players.list[k])]],
     ball |-> BallState_from_dict(data.ball),
     score |-> [tuple |-> data.score.list],
     tick |-> data.tick,
     status |-> GameStatus(data.status),
     field_width |-> data.field_width,
     field_height |-> data.field_height,
     goal_height |-> data.goal_height]

\* Player snapshots: at rest at a slot, moving with a cooldown running, and
\* beyond the field with negative velocities.
CodecPlayers ==
    {[cls |-> "PlayerState", x |-> 3400, y |-> 2000, vx |-> 0, vy |-> 0,
      team_id |-> 0, player_id |-> 0, kick_cooldown |-> 0],
     [cls |-> "PlayerState", x |-> 4613, y |-> 1987, vx |-> 300, vy |-> -400,
      team_id |-> 1, player_id |-> 0, kick_cooldown |-> 2],
     [cls |-> "PlayerState", x |-> -1, y |-> 0, vx |-> -500, vy |-> 1,
      team_id |-> 1, player_id |-> 3, kick_cooldown |-> 1]}

CodecBalls ==
    {[cls |-> "BallState", x |-> 4000, y |-> 2000, vx |-> 0, vy |-> 0],
     [cls |-> "BallState", x |-> -201, y |-> 1000, vx |-> -1960, vy |-> 7]}

\* Snapshots of no, one and two players, at the first and the last tick, of
\* a running and of an ended match.
CodecStates ==
    {[cls |-> "GameState", players |-> [tuple |-> ps], ball |-> b,
      score |-> [tuple |-> sc], tick |-> t, status |-> st,
      field_width |-> field_width, field_height |-> field_height,
      goal_height |-> goal_height] :
        ps \in UNION {[1..n -> CodecPlayers] : n \in 0..2},
        b \in CodecBalls, sc \in {<<0, 0>>, <<2, 1>>}, t \in {0, max_ticks},
        st \in StatusMembers}

InitCodec ==
    /\ GameInit
    /\ GatherIdle
    /\ probe \in CodecStates \cup CodecPlayers \cup CodecBalls
    /\ result = <<>>

\* PlayerState.from_dict(probe.to_dict())
PlayerRoundTrip ==
    /\ result = <<>>
    /\ probe.cls = "PlayerState"
    /\ result' = [dict |-> PlayerState_to_dict(probe),
                  back |-> PlayerState_from_dict(PlayerState_to_dict(probe))]
    /\ UNCHANGED <<probe, gameVars, gatherVars>>

\* BallState.from_dict(probe.to_dict())
BallRoundTrip ==
    /\ result = <<>>
    /\ probe.cls = "BallState"
    /\ result' = [dict |-> BallState_to_dict(probe),
                  back |-> BallState_from_dict(BallState_to_dict(probe))]
    /\ UNCHANGED <<probe, gameVars, gatherVars>>

\* GameState.from_dict(probe.to_dict())
GameRoundTrip ==
    /\ result = <<>>
    /\ probe.cls = "GameState"
    /\ result' = [dict |-> GameState_to_dict(probe),
                  back |-> GameState_from_dict(GameState_to_dict(probe))]
    /\ UNCHANGED <<probe, gameVars, gatherVars>>

NextCodec == PlayerRoundTrip \/ BallRoundTrip \/ GameRoundTrip

SpecCodec == InitCodec /\ [][NextCodec]_vars

\* C23: decoding the encoding of a GameState, a PlayerState or a BallState
\* gives back an equal object, and the dict of a GameState holds the status
\* as the string "running" or "ended".
C23_RoundTrip ==
    result # <<>> =>
        /\ result.back = probe
        /\ probe.cls = "GameState" =>
             /\ result.dict.status \in {"running", "ended"}
             /\ result.dict.status = "running" <=> probe.status.member = "RUNNING"

\* A snapshot of two players of an ended match has been encoded and decoded.
C23_Witness ==
    /\ result # <<>>
    /\ probe.cls = "GameState"
    /\ Len(probe.players.tuple) = 2
    /\ probe.score.tuple = <<2, 1>>
    /\ result.dict.status = "ended"
    /\ result.back.status.member = "ENDED"

----------------------------------------------------------------------------
(* GameState.get_player *)

\* get_player returning None where line 100 raises.
GetPlayerOrNone(self, team_id, player_id) ==
    LET hits == {k \in DOMAIN self.players.tuple :
                    /\ self.players.tuple[k].team_id = team_id
                    /\ self.players.tuple[k].player_id = player_id}
    IN  IF hits = {}
        THEN [returned |-> None]
        ELSE [returned |-> self.players.tuple[CHOOSE k \in hits :
                                                \A h \in hits : k <= h]]

\* GameState.get_player: the first player of the tuple with that team and
\* player id is returned; without one, ValueError is raised.
get_player(self, team_id, player_id) ==
    LET hits == {k \in DOMAIN self.players.tuple :
                    /\ self.players.tuple[k].team_id = team_id
                    /\ self.players.tuple[k].player_id = player_id}
    IN  IF hits = {}
        THEN [raised |-> "ValueError"]
        ELSE [returned |-> self.players.tuple[CHOOSE k \in hits :
                                                \A h \in hits : k <= h]]

\* A call of probe.get_player(team_id, player_id).
GetPlayerCall ==
    /\ result = <<>>
    /\ probe.cls = "GameState"
    /\ \E team_id \in 0..1, player_id \in 0..3 :
         result' = [team_id |-> team_id, player_id |-> player_id,
                    out |-> get_player(probe, team_id, player_id)]
    /\ UNCHANGED <<probe, gameVars, gatherVars>>

NextLookup == GetPlayerCall

SpecLookup == InitCodec /\ [][NextLookup]_vars

\* C24: get_player(team_id, player_id) returns a player of the snapshot with
\* exactly that team and player id when the snapshot has one, raises an
\* error and returns nothing when it has none, and leaves the snapshot as it
\* was.
C24_LookupMissRaises ==
    /\ [](result # <<>> =>
            LET ps == {probe.players.tuple[k] : k \in DOMAIN probe.players.tuple}
                wanted == {q \in ps : /\ q.team_id = result.team_id
                                      /\ q.player_id = result.player_id}
            IN  IF wanted # {}
                THEN /\ DOMAIN result.out = {"returned"}
                     /\ result.out.returned \in wanted
                ELSE result.out = [raised |-> "ValueError"])
    /\ [][result' # <<>> => probe' = probe]_vars

\* A lookup has missed in a snapshot that holds players, and has raised.
C24_Witness ==
    /\ result # <<>>
    /\ Len(probe.players.tuple) = 2
    /\ result.team_id = 0 /\ result.player_id = 3
    /\ result.out = [raised |-> "ValueError"]

----------------------------------------------------------------------------
(* NetworkAgent (src/network/network_agent.py): get_action on the engine's  *)
(* worker thread, set_pending_action, clear_pending_action and reset on     *)
(* another thread.  The agent and the frame of its get_action call are in   *)
(* probe, the values get_action returned so far in result.  The actions     *)
(* passed to set_pending_action are numbered 1, 2, ...                      *)

\* Actions passed to set_pending_action in all.
MaxSent == 2

\* Calls of get_action followed.
MaxGets == 3

\* Action(0.0, 0.0, False), the default of line 60.
DefaultAction == 0

InitNet ==
    /\ GameInit
    /\ GatherIdle
    /\ probe = [_pending_action |-> None, pc |-> "idle", action |-> None,
                sent |-> 0]
    /\ result = <<>>

\* set_pending_action(action), line 36 (_action_event stays None: the test
\* of line 37 is false).
SetPending ==
    /\ probe.sent < MaxSent
    /\ probe' = [probe EXCEPT !._pending_action = probe.sent + 1,
                              !.sent = probe.sent + 1]
    /\ UNCHANGED <<result, gameVars, gatherVars>>

\* clear_pending_action, line 42.
ClearPending ==
    /\ probe' = [probe EXCEPT !._pending_action = None]
    /\ UNCHANGED <<result, gameVars, gatherVars>>

\* reset, line 69.
NetReset ==
    /\ probe' = [probe EXCEPT !._pending_action = None]
    /\ UNCHANGED <<result, gameVars, gatherVars>>

\* get_action, line 55: the test of _pending_action; without a pending
\* action the default is returned (line 60).
GetTest ==
    /\ probe.pc = "idle"
    /\ Len(result) < MaxGets
    /\ IF probe._pending_action # None
       THEN /\ probe' = [probe EXCEPT !.pc = "read"]
            /\ UNCHANGED result
       ELSE /\ result' = Append(result, DefaultAction)
            /\ UNCHANGED probe
    /\ UNCHANGED <<gameVars, gatherVars>>

\* get_action, line 56: action = self._pending_action.
GetRead ==
    /\ probe.pc = "read"
    /\ probe' = [probe EXCEPT !.action = probe._pending_action, !.pc = "write"]
    /\ UNCHANGED <<result, gameVars, gatherVars>>

\* get_action, lines 57-58: self._pending_action = None; return action.
GetWriteReturn ==
    /\ probe.pc = "write"
    /\ probe' = [probe EXCEPT !._pending_action = None, !.pc = "idle",
                              !.action = None]
    /\ result' = Append(result, probe.action)
    /\ UNCHANGED <<gameVars, gatherVars>>

NextNet ==
    SetPending \/ ClearPending \/ NetReset \/ GetTest \/ GetRead \/ GetWriteReturn

SpecNet == InitNet /\ [][NextNet]_vars

\* C27: whatever the interleaving, every value get_action has returned is
\* the default action or an action passed to set_pending_action before,
\* never None, and no passed action has been returned by two calls.
C27_NetworkAgentReturns ==
    \A k \in DOMAIN result :
        /\ result[k] # None
        /\ result[k] = DefaultAction \/ result[k] \in 1..probe.sent
        /\ \A h \in DOMAIN result :
             (h # k /\ result[h] = result[k]) => result[k] = DefaultAction

----------------------------------------------------------------------------
(* Game._get_agent_actions: the engine thread and the agents' calls *)

\* Calls of _get_agent_actions followed.
MaxCalls == 2

\* What the decision source of agent i may return in the c-th call: its
\* answers differ from one tick to the next.
CallActions(i, c) ==
    {[a EXCEPT !.ax = a.ax + c] : a \in AgentActions(TeamOf(i))}

\* late: the call ended after the shared timeout had elapsed.
Unanswered == [st |-> "running", val |-> NeutralAction, late |-> FALSE]

\* Futures that as_completed has yielded: their key is in the actions dict.
Yielded == DOMAIN gactions

Finished(i) == fut[i].st \in {"returned", "raised"}

\* Lines 197-206: the executor is created and every get_action is submitted.
Submit ==
    /\ gpc = "idle"
    /\ gcall < MaxCalls
    /\ gcall' = gcall + 1
    /\ gpc' = "collect"
    /\ fut' = [i \in Agents |-> Unanswered]
    /\ deadline_passed' = FALSE
    /\ gactions' = <<>>
    /\ UNCHANGED <<gameVars, probeVars>>

\* An agent's get_action returns the action a.
AgentReturn(i, a) ==
    /\ gpc \in {"collect", "exit"}
    /\ fut[i].st = "running"
    /\ fut' = [fut EXCEPT ![i] = [st |-> "returned", val |-> a,
                                  late |-> deadline_passed]]
    /\ UNCHANGED <<gpc, deadline_passed, gactions, gcall, gameVars, probeVars>>

\* An agent's get_action raises.
AgentRaise(i) ==
    /\ gpc \in {"collect", "exit"}
    /\ fut[i].st = "running"
    /\ fut' = [fut EXCEPT ![i].st = "raised", ![i].late = deadline_passed]
    /\ UNCHANGED <<gpc, deadline_passed, gactions, gcall, gameVars, probeVars>>

\* An agent's get_action enters a computation or a wait that never ends.
AgentHang(i) ==
    /\ gpc \in {"collect", "exit"}
    /\ fut[i].st = "running"
    /\ fut' = [fut EXCEPT ![i].st = "hung"]
    /\ UNCHANGED <<gpc, deadline_passed, gactions, gcall, gameVars, probeVars>>

\* Line 210: the shared timeout of as_completed elapses.
DeadlineExpires ==
    /\ gpc = "collect"
    /\ ~deadline_passed
    /\ deadline_passed' = TRUE
    /\ UNCHANGED <<gpc, fut, gactions, gcall, gameVars, probeVars>>

\* Lines 209-218: as_completed yields a finished future; its result is
\* stored, or the default action if the call raised.
Collect(i) ==
    /\ gpc = "collect"
    /\ Finished(i)
    /\ i \notin Yielded
    /\ gactions' = [k \in Yielded \cup {i} |->
                      IF k # i THEN gactions[k]
                      ELSE IF fut[i].st = "returned" THEN fut[i].val
                      ELSE NeutralAction]
    /\ UNCHANGED <<gpc, fut, deadline_passed, gcall, gameVars, probeVars>>

\* Line 209: as_completed has yielded every future.
CollectDone ==
    /\ gpc = "collect"
    /\ Yielded = Agents
    /\ gpc' = "exit"
    /\ UNCHANGED <<fut, deadline_passed, gactions, gcall, gameVars, probeVars>>

\* Lines 219-221: as_completed raises TimeoutError with futures outstanding.
TimeoutRaise ==
    /\ gpc = "collect"
    /\ deadline_passed
    /\ Yielded # Agents
    /\ gpc' = "exit"
    /\ UNCHANGED <<fut, deadline_passed, gactions, gcall, gameVars, probeVars>>

\* Line 202: leaving the with block shuts the executor down with wait=True,
\* which joins every worker thread: it returns once no call is outstanding.
ExitWith ==
    /\ gpc = "exit"
    /\ \A i \in Agents : Finished(i)
    /\ gpc' = "fill"
    /\ UNCHANGED <<fut, deadline_passed, gactions, gcall, gameVars, probeVars>>

\* Fill repeating the action of the previous tick for a missing entry.
FillFromLastTick ==
    /\ gpc = "fill"
    /\ gactions' = [k \in Agents |->
                      IF k \in Yielded THEN gactions[k]
                      ELSE IF actions # NoActions THEN actions[k]
                      ELSE NeutralAction]
    /\ gpc' = "done"
    /\ UNCHANGED <<fut, deadline_passed, gcall, gameVars, probeVars>>

\* Lines 223-227: missing actions are filled with the default.
Fill ==
    /\ gpc = "fill"
    /\ gactions' = [k \in Agents |->
                      IF k \in Yielded THEN gactions[k] ELSE NeutralAction]
    /\ gpc' = "done"
    /\ UNCHANGED <<fut, deadline_passed, gcall, gameVars, probeVars>>

\* Line 229 and Game.step, line 267: the dict is returned and becomes the
\* actions of the step.
Return ==
    /\ gpc = "done"
    /\ gpc' = "idle"
    /\ actions' = gactions
    /\ fut' = <<>>
    /\ deadline_passed' = FALSE
    /\ gactions' = <<>>
    /\ UNCHANGED <<players, ball, score, tick, status, goal_celebration_remaining,
                   pending_goal_scorer, ret, asked, kick_impulse, log,
                   detected_at, snapshot, seen, resets, states, finalized,
                   returned, gcall, probeVars>>

NextGather ==
    \/ Submit
    \/ \E i \in Agents : \E a \in CallActions(i, gcall) : AgentReturn(i, a)
    \/ \E i \in Agents : AgentRaise(i)
    \/ \E i \in Agents : AgentHang(i)
    \/ DeadlineExpires
    \/ \E i \in Agents : Collect(i)
    \/ CollectDone
    \/ TimeoutRaise
    \/ ExitWith
    \/ Fill
    \/ Return

SpecGather == Init /\ [][NextGather]_vars

\* C1: decision gathering never blocks: whatever the sources do, and however
\* many of them never return, a started _get_agent_actions is never left
\* without a step to take before it has its dict, and the dict holds the
\* neutral action for every source that did not return.
C1_GatherNeverBlocks ==
    /\ gpc \in {"collect", "exit", "fill"} => ENABLED NextGather
    /\ gpc = "done" =>
         \A i \in Agents : fut[i].st = "hung" => gactions[i] = NeutralAction

\* C12: when _get_agent_actions has its dict, the dict has one entry per
\* participant; a source that raised, or whose call had not ended when the
\* shared timeout elapsed, has the neutral action; and every source whose
\* call returned before the timeout elapsed has exactly the action it
\* returned.
C12_FailureIsolation ==
    gpc = "done" =>
        /\ DOMAIN gactions = Agents
        /\ \A i \in Agents :
             /\ (fut[i].st = "raised" \/ fut[i].late)
                   => gactions[i] = NeutralAction
             /\ (fut[i].st = "returned" /\ ~fut[i].late)
                   => gactions[i] = fut[i].val

====
